---------------------------- MODULE Spec2Model ----------------------------
(***************************************************************************)
(* The drawing surface of src/components/DrawingTool.tsx as a state        *)
(* machine.                                                                *)
(*                                                                         *)
(* State.  The React state fields (useState) are the variables of the same *)
(* name; canvas is the pixel buffer behind ctx; lastPointRef is the ref.   *)
(* The handlers are useCallback closures: they read the state fields as    *)
(* they were at the last render (the variable rendered), while a           *)
(* functional updater, setX(prev => ...), a ref and the canvas act on the  *)
(* current value.  React renders the updates of a discrete event           *)
(* (pointerdown, pointerup, click) before the next event is dispatched and *)
(* renders the updates of a continuous event (pointermove, pointerleave,   *)
(* wheel) in a later scheduler task, so that further events may be         *)
(* dispatched to the handlers of the previous render: Render is a step of  *)
(* its own after a continuous event and part of the step of a discrete     *)
(* one.                                                                    *)
(*                                                                         *)
(* Numbers.  Coordinates, offsets and the scale are exact rationals        *)
(* <<numerator, denominator>>; IEEE rounding is not modelled.  Pointer     *)
(* positions are relative to the viewport's top-left corner                *)
(* (clientX - rect.left, clientY - rect.top).                              *)
(*                                                                         *)
(* Pixels.  The buffer is the set of the points painted: the centre of a   *)
(* dot, and the ends and the midpoint of a smoothed segment.  Blank (all   *)
(* white) is the empty set.  The pointer positions explored all fall on    *)
(* the canvas.                                                             *)
(***************************************************************************)
EXTENDS Integers, Sequences, FiniteSets, TLC

(***************************************************************************)
(* Exact rational arithmetic.  <<1, 0>> and <<-1, 0>> stand for            *)
(* Number.POSITIVE_INFINITY and Number.NEGATIVE_INFINITY.                  *)
(***************************************************************************)
Abs(n) == IF n < 0 THEN -n ELSE n

RECURSIVE Gcd(_, _)
Gcd(a, b) == IF b = 0 THEN a ELSE Gcd(b, a % b)

Norm(n, d) ==
    LET s == IF d < 0 THEN -1 ELSE 1
        g == Gcd(Abs(n), Abs(d))
    IN  IF g = 0 THEN <<0, 0>> ELSE <<(s * n) \div g, (s * d) \div g>>

R(n) == <<n, 1>>
\* Two infinities: the sum of equal ones is that infinity, of opposite ones NaN.
RAdd(a, b) ==
    IF a[2] = 0 /\ b[2] = 0
    THEN IF a[1] = b[1] THEN a ELSE <<0, 0>>
    ELSE Norm(a[1] * b[2] + b[1] * a[2], a[2] * b[2])
RSub(a, b) == RAdd(a, <<-b[1], b[2]>>)
RMul(a, b) == Norm(a[1] * b[1], a[2] * b[2])
RDiv(a, b) == Norm(a[1] * b[2], a[2] * b[1])
RLe(a, b) == a[1] * b[2] <= b[1] * a[2]
RMin(a, b) == IF RLe(a, b) THEN a ELSE b
RMax(a, b) == IF RLe(a, b) THEN b ELSE a

POSITIVE_INFINITY == <<1, 0>>
NEGATIVE_INFINITY == <<-1, 0>>

(***************************************************************************)
(* Program constants.                                                      *)
(***************************************************************************)
CANVAS_WIDTH == 600
CANVAS_HEIGHT == 600
BORDER_SIZE == 20

\* Math.min(Math.max(scale + delta * 0.1, 0.1), 3): the limits and the unit.
MinScale == <<1, 10>>
MaxScale == <<3, 1>>
ZoomUnit == <<1, 10>>
\* handleWheel: delta = -Math.sign(e.deltaY) * 0.5
WheelFactor == <<1, 2>>

(***************************************************************************)
(* Bounds of the exploration.                                              *)
(***************************************************************************)
\* Side of the square viewport element, in CSS pixels (w-full aspect-square).
ViewportSize == 640
\* Spec explores the behaviours of at most this many events after mount.
MaxEvents == 5
\* SpecDraw explores strokes while historyIndex + 1 is below this, and
\* stroke-ending events while historyIndex is.
MaxSnapshots == 3
\* SpecView explores pan moves while fewer than this many were handled.
MaxPanMoves == 1
\* SpecRoundTrip explores round trips of at most this many strokes.
MaxStrokes == 2

\* window.devicePixelRatio of the display the component is mounted on.
DevicePixelRatios == {1, 2}

\* Pointer positions the events are drawn from, relative to the viewport.
Points == {<<R(120), R(200)>>, <<R(320), R(260)>>}
\* Pointer positions of SpecExport: near the top-left corner of the canvas and
\* near its bottom-right corner (buffer points (10, 10) and (590, 580)).
ExportPoints == {<<R(30), R(30)>>, <<R(610), R(600)>>}
\* Math.sign(e.deltaY) of a wheel event.
WheelSigns == {-1, 0, 1}
\* The argument of the zoom buttons: handleZoom(-1), handleZoom(1).
ButtonDeltas == {-1, 1}

\* lastPointRef.current === null
Null == <<>>
Blank == {}

VARIABLES
    canvas,               \* the pixel buffer (ctx): the set of painted points
    lastPointRef,         \* lastPointRef.current: a point or Null
    isDrawing, hasDrawn, isPanMode, isPanning,
    panOffset,            \* <<x, y>>
    scale,
    lastPointerPosition,  \* <<x, y>>
    drawBounds,           \* [minX, minY, maxX, maxY]
    history,              \* sequence of snapshots (1-based here)
    historyIndex,         \* 0-based, as in the source
    rendered,             \* the state fields as the current handlers see them
    touched,              \* observer: the extent of the points drawn at since the last reset
    strokeTouched,        \* observer: the stroke in progress rasterised a mark
    panMoves,             \* observer: pan moves handled
    events,               \* observer: events handled under Spec
    trip,                 \* observer: the strokes / undo / redo round trip
    before,               \* observer: the transform on screen before a zoom-in press,
                          \*   while the last events were that press ("in") or that
                          \*   press and a zoom-out press ("out")
    dpr,                  \* window.devicePixelRatio
    exported              \* observer: what the last export produced

state == <<isDrawing, hasDrawn, isPanMode, isPanning, panOffset, scale,
           lastPointerPosition, drawBounds, history, historyIndex>>
observers == <<touched, strokeTouched, panMoves>>
vars == <<canvas, lastPointRef, state, rendered, observers, events, trip, before,
          dpr, exported>>

\* The state fields a render hands to the handlers it creates.
Committed ==
    [isDrawing |-> isDrawing, hasDrawn |-> hasDrawn, isPanMode |-> isPanMode,
     isPanning |-> isPanning, panOffset |-> panOffset, scale |-> scale,
     lastPointerPosition |-> lastPointerPosition, drawBounds |-> drawBounds,
     history |-> history, historyIndex |-> historyIndex]

EmptyBounds ==
    [minX |-> POSITIVE_INFINITY, minY |-> POSITIVE_INFINITY,
     maxX |-> NEGATIVE_INFINITY, maxY |-> NEGATIVE_INFINITY]

\* (viewportRect.width - CANVAS_WIDTH) / 2, (viewportRect.height - CANVAS_HEIGHT) / 2
CenteredOffset ==
    <<RDiv(R(ViewportSize - CANVAS_WIDTH), R(2)),
      RDiv(R(ViewportSize - CANVAS_HEIGHT), R(2))>>

\* Observer: the extent b of a set of points, extended by the point c.
Extend(b, c) ==
    [minX |-> IF RLe(c[1], b.minX) THEN c[1] ELSE b.minX,
     minY |-> IF RLe(c[2], b.minY) THEN c[2] ELSE b.minY,
     maxX |-> IF RLe(b.maxX, c[1]) THEN c[1] ELSE b.maxX,
     maxY |-> IF RLe(b.maxY, c[2]) THEN c[2] ELSE b.maxY]

\* The last event was no press of a zoom button.
NotZoomedIn == [phase |-> "none", scale |-> R(1), panOffset |-> CenteredOffset]

\* Nothing was exported yet.
NoExport ==
    [by |-> "none", result |-> "none", width |-> R(0), height |-> R(0), undone |-> FALSE]

\* No stroke of a round trip completed yet.
FreshTrip == [phase |-> "strokes", k |-> 0, n |-> 0, target |-> Blank]

\* The component after its mount effects have run and rendered.
Init ==
    /\ canvas = Blank
    /\ lastPointRef = Null
    /\ isDrawing = FALSE
    /\ hasDrawn = FALSE
    /\ isPanMode = FALSE
    /\ isPanning = FALSE
    /\ panOffset = CenteredOffset
    /\ scale = R(1)
    /\ lastPointerPosition = <<R(0), R(0)>>
    /\ drawBounds = EmptyBounds
    /\ history = <<Blank>>
    /\ historyIndex = 0
    /\ rendered = Committed
    /\ touched = EmptyBounds
    /\ strokeTouched = FALSE
    /\ panMoves = 0
    /\ events = 0
    /\ trip = FreshTrip
    /\ before = NotZoomedIn
    /\ dpr \in DevicePixelRatios
    /\ exported = NoExport

(***************************************************************************)
(* Helper functions of the component.                                      *)
(***************************************************************************)
\* getCanvasCoordinates: (client - rect.left - panOffset) / scale, with the
\* Variant of getCanvasCoordinates that leaves the pan offset out.
getCanvasCoordinates_NoOffset(p) ==
    <<RDiv(p[1], rendered.scale), RDiv(p[2], rendered.scale)>>

\* panOffset and scale of the handler's render.
getCanvasCoordinates(p) ==
    <<RDiv(RSub(p[1], rendered.panOffset[1]), rendered.scale),
      RDiv(RSub(p[2], rendered.panOffset[2]), rendered.scale)>>

\* transform: translate(panOffset.x px, panOffset.y px) scale(scale), origin
\* top-left, of the same render: where the buffer point b is shown, relative
\* to the viewport.
renderTransform(b) ==
    <<RAdd(rendered.panOffset[1], RMul(rendered.scale, b[1])),
      RAdd(rendered.panOffset[2], RMul(rendered.scale, b[2]))>>

\* The updater of updateDrawBounds(x, y), applied to the current bounds.
updateDrawBounds(prev, c) ==
    [minX |-> RMin(prev.minX, c[1]), minY |-> RMin(prev.minY, c[2]),
     maxX |-> RMax(prev.maxX, c[1]), maxY |-> RMax(prev.maxY, c[2])]

\* drawSmoothLine(start, end): the points it paints.  With no last point a
\* straight line from start to end; else the curve from the last point to the
\* midpoint and the line from the midpoint to end.
drawSmoothLine(start, end) ==
    IF lastPointRef = Null
    THEN {start, end}
    ELSE {lastPointRef,
          <<RDiv(RAdd(lastPointRef[1], end[1]), R(2)),
            RDiv(RAdd(lastPointRef[2], end[2]), R(2))>>,
          end}

\* Array.prototype.slice(0, k) for k >= 0.
slice(arr, k) == SubSeq(arr, 1, IF k < Len(arr) THEN k ELSE Len(arr))

\* ctx.putImageData(arr[i], 0, 0), i 0-based: the buffer it leaves.  Outside
\* the array arr[i] is undefined, putImageData throws a TypeError and the
\* buffer stays as it was.
putImageData(arr, i) == IF 0 <= i /\ i < Len(arr) THEN arr[i + 1] ELSE canvas

(***************************************************************************)
(* The handlers.  Each states the next value of every variable but         *)
(* rendered and trip.                                                      *)
(***************************************************************************)
startDrawing(p) ==
    LET coords == getCanvasCoordinates(p)
    IN  /\ lastPointRef' = coords
        /\ isDrawing' = TRUE
        /\ drawBounds' = updateDrawBounds(drawBounds, coords)
        /\ canvas' = canvas \cup {coords}
        /\ touched' = Extend(touched, coords)
        /\ strokeTouched' = TRUE
        /\ UNCHANGED <<hasDrawn, isPanMode, isPanning, panOffset, scale,
                       lastPointerPosition, history, historyIndex, panMoves>>

draw(p) ==
    IF rendered.isDrawing
    THEN LET newCoords == getCanvasCoordinates(p)
         IN  /\ IF lastPointRef # Null
                THEN /\ canvas' = canvas \cup drawSmoothLine(lastPointRef, newCoords)
                     /\ lastPointRef' = newCoords
                     /\ hasDrawn' = TRUE
                     /\ touched' = Extend(touched, newCoords)
                     /\ strokeTouched' = TRUE
                ELSE UNCHANGED <<canvas, lastPointRef, hasDrawn, touched, strokeTouched>>
             /\ drawBounds' = updateDrawBounds(drawBounds, newCoords)
             /\ UNCHANGED <<isDrawing, isPanMode, isPanning, panOffset, scale,
                            lastPointerPosition, history, historyIndex, panMoves>>
    ELSE UNCHANGED <<canvas, lastPointRef, state, observers>>

\* setHistory((prev) => [...prev.slice(0, historyIndex + 1), imageData])
appendSnapshot(prev, imageData) ==
    Append(slice(prev, rendered.historyIndex + 1), imageData)

stopDrawing ==
    IF rendered.isDrawing
    THEN /\ isDrawing' = FALSE
         /\ lastPointRef' = Null
         /\ IF rendered.hasDrawn
            THEN /\ history' = appendSnapshot(history, canvas)
                 /\ historyIndex' = historyIndex + 1
                 /\ hasDrawn' = FALSE
            ELSE UNCHANGED <<history, historyIndex, hasDrawn>>
         /\ strokeTouched' = FALSE
         /\ UNCHANGED <<canvas, isPanMode, isPanning, panOffset, scale,
                        lastPointerPosition, drawBounds, touched, panMoves>>
    ELSE UNCHANGED <<canvas, lastPointRef, state, observers>>

startPanning(p) ==
    /\ isPanning' = TRUE
    /\ lastPointerPosition' = p
    /\ UNCHANGED <<canvas, lastPointRef, isDrawing, hasDrawn, isPanMode, panOffset,
                   scale, drawBounds, history, historyIndex, observers>>

pan(p) ==
    IF rendered.isPanning
    THEN LET dx == RSub(p[1], rendered.lastPointerPosition[1])
             dy == RSub(p[2], rendered.lastPointerPosition[2])
         IN  /\ panOffset' = <<RAdd(panOffset[1], dx), RAdd(panOffset[2], dy)>>
             /\ lastPointerPosition' = p
             /\ panMoves' = panMoves + 1
             /\ UNCHANGED <<canvas, lastPointRef, isDrawing, hasDrawn, isPanMode,
                            isPanning, scale, drawBounds, history, historyIndex,
                            touched, strokeTouched>>
    ELSE UNCHANGED <<canvas, lastPointRef, state, observers>>

stopPanning ==
    /\ isPanning' = FALSE
    /\ UNCHANGED <<canvas, lastPointRef, isDrawing, hasDrawn, isPanMode, panOffset,
                   scale, lastPointerPosition, drawBounds, history, historyIndex,
                   observers>>

\* Variant of newScale without the lower limit.
newScale_NoLowerLimit(s, delta) == RMin(RAdd(s, RMul(delta, ZoomUnit)), MaxScale)

\* Math.min(Math.max(scale + delta * 0.1, 0.1), 3)
newScale(s, delta) == RMin(RMax(RAdd(s, RMul(delta, ZoomUnit)), MinScale), MaxScale)

\* viewportRect.width / 2 and viewportRect.height / 2
viewportCenter == <<RDiv(R(ViewportSize), R(2)), RDiv(R(ViewportSize), R(2))>>

\* Variant of newOffset that scales about the buffer's origin (offset kept).
newOffset_ToOrigin(center, offset, s, ns) == offset

\* Variant of newOffset that takes the centre's buffer point without dividing
\* by the scale.
newOffset_Undivided(center, offset, s, ns) == RSub(center, RMul(RSub(center, offset), ns))

\* viewportCenter - canvasCenter * newScale, canvasCenter = (viewportCenter - panOffset) / scale
newOffset(center, offset, s, ns) == RSub(center, RMul(RDiv(RSub(center, offset), s), ns))

\* Variant of handleZoom that also clears the buffer.
handleZoom_ClearsBuffer(delta) ==
    LET ns == newScale(rendered.scale, delta)
    IN  /\ scale' = ns
        /\ panOffset' =
             <<newOffset(viewportCenter[1], rendered.panOffset[1], rendered.scale, ns),
               newOffset(viewportCenter[2], rendered.panOffset[2], rendered.scale, ns)>>
        /\ canvas' = Blank
        /\ UNCHANGED <<lastPointRef, isDrawing, hasDrawn, isPanMode, isPanning,
                       lastPointerPosition, drawBounds, history, historyIndex,
                       observers>>

handleZoom(delta) ==
    LET ns == newScale(rendered.scale, delta)
    IN  /\ scale' = ns
        /\ panOffset' =
             <<newOffset(viewportCenter[1], rendered.panOffset[1], rendered.scale, ns),
               newOffset(viewportCenter[2], rendered.panOffset[2], rendered.scale, ns)>>
        /\ UNCHANGED <<canvas, lastPointRef, isDrawing, hasDrawn, isPanMode, isPanning,
                       lastPointerPosition, drawBounds, history, historyIndex,
                       observers>>

\* Variant of undo that clears the stroke bounds when it restores the blank
\* snapshot at index 0.
undo_ClearsBounds ==
    IF rendered.historyIndex > 0
    THEN /\ historyIndex' = historyIndex - 1
         /\ canvas' = putImageData(rendered.history, rendered.historyIndex - 1)
         /\ drawBounds' = IF rendered.historyIndex = 1 THEN EmptyBounds ELSE drawBounds
         /\ UNCHANGED <<lastPointRef, isDrawing, hasDrawn, isPanMode, isPanning,
                        panOffset, scale, lastPointerPosition, history,
                        observers>>
    ELSE UNCHANGED <<canvas, lastPointRef, state, observers>>

undo ==
    IF rendered.historyIndex > 0
    THEN /\ historyIndex' = historyIndex - 1
         /\ canvas' = putImageData(rendered.history, rendered.historyIndex - 1)
         /\ UNCHANGED <<lastPointRef, isDrawing, hasDrawn, isPanMode, isPanning,
                        panOffset, scale, lastPointerPosition, drawBounds, history,
                        observers>>
    ELSE UNCHANGED <<canvas, lastPointRef, state, observers>>

redo ==
    IF rendered.historyIndex < Len(rendered.history) - 1
    THEN /\ historyIndex' = historyIndex + 1
         /\ canvas' = putImageData(rendered.history, rendered.historyIndex + 1)
         /\ UNCHANGED <<lastPointRef, isDrawing, hasDrawn, isPanMode, isPanning,
                        panOffset, scale, lastPointerPosition, drawBounds, history,
                        observers>>
    ELSE UNCHANGED <<canvas, lastPointRef, state, observers>>

\* (viewportRect.width - ctx.canvas.width / window.devicePixelRatio) / 2
centerOffset(canvasSize) ==
    RDiv(RSub(R(ViewportSize), RDiv(R(canvasSize), R(dpr))), R(2))

\* Variant of resetCanvas that leaves the history and the index alone.
resetCanvas_KeepHistory ==
    /\ canvas' = Blank
    /\ panOffset' = <<centerOffset(CANVAS_WIDTH * dpr), centerOffset(CANVAS_HEIGHT * dpr)>>
    /\ scale' = R(1)
    /\ drawBounds' = EmptyBounds
    /\ lastPointRef' = Null
    /\ hasDrawn' = FALSE
    /\ touched' = EmptyBounds
    /\ UNCHANGED <<isDrawing, isPanMode, isPanning, lastPointerPosition,
                   strokeTouched, panMoves, history, historyIndex>>

resetCanvas ==
    /\ canvas' = Blank
    /\ panOffset' = <<centerOffset(CANVAS_WIDTH * dpr), centerOffset(CANVAS_HEIGHT * dpr)>>
    /\ scale' = R(1)
    /\ drawBounds' = EmptyBounds
    /\ lastPointRef' = Null
    /\ hasDrawn' = FALSE
    /\ history' = <<Blank>>
    /\ historyIndex' = 0
    /\ touched' = EmptyBounds
    /\ UNCHANGED <<isDrawing, isPanMode, isPanning, lastPointerPosition,
                   strokeTouched, panMoves>>

\* Variant of getCanvasData that never finds the crop rectangle empty.
getCanvasData_NoEmptyTest(b) ==
    [result |-> "image",
     width |-> RSub(RMin(R(CANVAS_WIDTH * dpr), RAdd(b.maxX, R(BORDER_SIZE))),
                    RMax(R(0), RSub(b.minX, R(BORDER_SIZE)))),
     height |-> RSub(RMin(R(CANVAS_HEIGHT * dpr), RAdd(b.maxY, R(BORDER_SIZE))),
                     RMax(R(0), RSub(b.minY, R(BORDER_SIZE))))]

\* getCanvasData with drawBounds = b: the alert and no canvas ("nothing"), or
\* a canvas of the crop rectangle's width and height (times the pixel ratio,
\* in device pixels).  canvas.width and canvas.height are CANVAS_WIDTH * dpr
\* and CANVAS_HEIGHT * dpr.
getCanvasData(b) ==
    LET minX == RMax(R(0), RSub(b.minX, R(BORDER_SIZE)))
        minY == RMax(R(0), RSub(b.minY, R(BORDER_SIZE)))
        maxX == RMin(R(CANVAS_WIDTH * dpr), RAdd(b.maxX, R(BORDER_SIZE)))
        maxY == RMin(R(CANVAS_HEIGHT * dpr), RAdd(b.maxY, R(BORDER_SIZE)))
        width == RSub(maxX, minX)
        height == RSub(maxY, minY)
    IN  IF \/ RLe(width, R(0)) \/ RLe(height, R(0))
           \/ b.minX = POSITIVE_INFINITY \/ b.minY = POSITIVE_INFINITY
        THEN [result |-> "nothing", width |-> R(0), height |-> R(0)]
        ELSE [result |-> "image", width |-> width, height |-> height]

\* Every completed stroke is undone: the history holds more than the blank
\* snapshot, the index is 0 and the buffer is blank.
AllUndone == Len(history) > 1 /\ historyIndex = 0 /\ canvas = Blank

\* What an export through the entry point by leaves in exported; undone
\* tells whether it was made with every stroke undone.
Exported(by) ==
    LET data == getCanvasData(rendered.drawBounds)
    IN  [by |-> by, result |-> data.result, width |-> data.width, height |-> data.height,
         undone |-> AllUndone]

\* saveCanvas: a download of the canvas getCanvasData returns, if any.
saveCanvas ==
    /\ exported' = Exported("save")
    /\ UNCHANGED <<canvas, lastPointRef, state, observers>>

\* getCanvasImageData: the data URL of that canvas, or null.
getCanvasImageData ==
    /\ exported' = Exported("accessor")
    /\ UNCHANGED <<canvas, lastPointRef, state, observers>>

\* onClick={() => setIsPanMode(!isPanMode)}
togglePanMode ==
    /\ isPanMode' = ~rendered.isPanMode
    /\ UNCHANGED <<canvas, lastPointRef, isDrawing, hasDrawn, isPanning, panOffset,
                   scale, lastPointerPosition, drawBounds, history, historyIndex,
                   observers>>

(***************************************************************************)
(* The events.  A discrete event ends with the render of its updates; a    *)
(* continuous one leaves them to a later Render.                           *)
(***************************************************************************)
FlushSync == rendered' = Committed'

PointerDown(p) ==
    /\ IF rendered.isPanMode THEN startPanning(p) ELSE startDrawing(p)
    /\ FlushSync

PointerMove(p) ==
    /\ IF rendered.isPanMode THEN pan(p) ELSE draw(p)
    /\ UNCHANGED rendered

PointerUp ==
    /\ IF rendered.isPanMode THEN stopPanning ELSE stopDrawing
    /\ FlushSync

PointerLeave ==
    /\ IF rendered.isPanMode THEN stopPanning ELSE stopDrawing
    /\ UNCHANGED rendered

\* disabled={historyIndex <= 0} and disabled={historyIndex >= history.length - 1};
\* a press of a disabled button runs nothing, as the handler's own guard has it.
undoDisabled == rendered.historyIndex <= 0

redoDisabled == rendered.historyIndex >= Len(rendered.history) - 1

ClickUndo == undo /\ FlushSync

ClickRedo == redo /\ FlushSync

ClickReset == resetCanvas /\ FlushSync

ClickZoom(d) == handleZoom(R(d)) /\ FlushSync

ClickPanMode == togglePanMode /\ FlushSync

\* A choice in the colour or brush-size picker: setBrushColour / setBrushSize,
\* state the model does not hold (a mark is a point, whatever its colour and
\* width), and the render that follows.
SelectBrush == UNCHANGED <<canvas, lastPointRef, state, observers>> /\ FlushSync

\* The save button and the getImageData accessor of the ref: no state update,
\* so no render.
ClickSave == saveCanvas /\ UNCHANGED rendered

GetImageData == getCanvasImageData /\ UNCHANGED rendered

\* handleWheel: handleZoom(-Math.sign(e.deltaY) * 0.5)
Wheel(sign) ==
    /\ handleZoom(RMul(R(-sign), WheelFactor))
    /\ UNCHANGED rendered

\* The scheduler task that renders the updates of continuous events.
Render ==
    /\ rendered # Committed
    /\ rendered' = Committed
    /\ UNCHANGED <<canvas, lastPointRef, state, observers>>

(***************************************************************************)
(* Spec: every event, in the behaviours of at most MaxEvents events.       *)
(***************************************************************************)
Counted ==
    events < MaxEvents /\ events' = events + 1 /\ UNCHANGED <<trip, before, dpr, exported>>

CountedExport == events < MaxEvents /\ events' = events + 1 /\ UNCHANGED <<trip, before, dpr>>

Next ==
    \/ \E p \in Points : PointerDown(p) /\ Counted
    \/ \E p \in Points : PointerMove(p) /\ Counted
    \/ PointerUp /\ Counted
    \/ PointerLeave /\ Counted
    \/ ClickUndo /\ Counted
    \/ ClickRedo /\ Counted
    \/ ClickReset /\ Counted
    \/ ClickPanMode /\ Counted
    \/ \E d \in ButtonDeltas : ClickZoom(d) /\ Counted
    \/ \E s \in WheelSigns : Wheel(s) /\ Counted
    \/ ClickSave /\ CountedExport
    \/ GetImageData /\ CountedExport
    \/ SelectBrush /\ Counted
    \/ Render /\ UNCHANGED <<events, trip, before, dpr, exported>>

Spec == Init /\ [][Next]_vars

(***************************************************************************)
(* SpecDraw: every event that leaves the viewport transform alone (no      *)
(* zoom, no wheel, no pan move), to any depth, within MaxSnapshots.        *)
(***************************************************************************)
Uncounted == UNCHANGED <<events, trip, before, dpr, exported>>

StrokeInBounds == rendered.isPanMode \/ historyIndex + 1 < MaxSnapshots

NextDraw ==
    \/ \E p \in Points : StrokeInBounds /\ PointerDown(p) /\ Uncounted
    \/ \E p \in Points : ~rendered.isPanMode /\ PointerMove(p) /\ Uncounted
    \/ historyIndex < MaxSnapshots /\ PointerUp /\ Uncounted
    \/ historyIndex < MaxSnapshots /\ PointerLeave /\ Uncounted
    \/ ClickUndo /\ Uncounted
    \/ ClickRedo /\ Uncounted
    \/ ClickReset /\ Uncounted
    \/ ClickPanMode /\ Uncounted
    \/ Render /\ Uncounted

SpecDraw == Init /\ [][NextDraw]_vars

(***************************************************************************)
(* SpecView: the events that move the viewport (zoom buttons, wheel, pan    *)
(* gestures, reset), to any depth, with at most MaxPanMoves pan moves.     *)
(***************************************************************************)
ZoomedIn == [phase |-> "in", scale |-> rendered.scale, panOffset |-> rendered.panOffset]

ZoomedOut == IF before.phase = "in" THEN [before EXCEPT !.phase = "out"] ELSE NotZoomedIn

Viewed == UNCHANGED <<events, trip, dpr, exported>> /\ before' = NotZoomedIn

NextView ==
    \/ \E d \in ButtonDeltas :
          /\ ClickZoom(d) /\ UNCHANGED <<events, trip, dpr, exported>>
          /\ before' = IF d = 1 THEN ZoomedIn ELSE ZoomedOut
    \/ \E sign \in WheelSigns : Wheel(sign) /\ Viewed
    \/ ClickPanMode /\ Viewed
    \/ \E p \in Points : rendered.isPanMode /\ PointerDown(p) /\ Viewed
    \/ \E p \in Points :
          rendered.isPanMode /\ panMoves < MaxPanMoves /\ PointerMove(p) /\ Viewed
    \/ rendered.isPanMode /\ PointerUp /\ Viewed
    \/ rendered.isPanMode /\ PointerLeave /\ Viewed
    \/ ClickReset /\ Viewed
    \/ Render /\ Uncounted

\* Of these events only reset reads the pixel ratio, in canvas.width /
\* devicePixelRatio, which is CANVAS_WIDTH whatever the ratio: SpecView
\* explores the mount on a display of ratio 1.
InitView == Init /\ dpr = 1

SpecView == InitView /\ [][NextView]_vars

(***************************************************************************)
(* SpecRoundTrip: from a fresh or reset canvas, trip.k completed strokes   *)
(* (drags or taps), then trip.k presses of undo, then trip.k presses of    *)
(* redo.  trip.target is the buffer right after the last completed stroke. *)
(***************************************************************************)
TripStroke(k) == [phase |-> "strokes", k |-> k, n |-> 0, target |-> canvas']

TripPress(phase, n) == [trip EXCEPT !.phase = phase, !.n = n]

InStrokes == trip.phase = "strokes" /\ ~rendered.isPanMode

NextRoundTrip ==
    \/ \E p \in Points :
          /\ InStrokes /\ ~isDrawing /\ trip.k < MaxStrokes
          /\ PointerDown(p) /\ Uncounted
    \/ \E p \in Points :
          /\ InStrokes /\ isDrawing
          /\ PointerMove(p) /\ Uncounted
    \/ /\ InStrokes /\ isDrawing
       /\ PointerUp /\ trip' = TripStroke(trip.k + 1) /\ UNCHANGED <<events, before, dpr, exported>>
    \/ /\ InStrokes /\ isDrawing
       /\ PointerLeave /\ trip' = TripStroke(trip.k + 1) /\ UNCHANGED <<events, before, dpr, exported>>
    \/ /\ ~isDrawing /\ trip.k >= 1
       /\ \/ trip.phase = "strokes" /\ trip' = TripPress("undo", 1)
          \/ trip.phase = "undo" /\ trip.n < trip.k /\ trip' = TripPress("undo", trip.n + 1)
       /\ ClickUndo /\ UNCHANGED <<events, before, dpr, exported>>
    \/ /\ \/ trip.phase = "undo" /\ trip.n = trip.k /\ trip' = TripPress("redo", 1)
          \/ trip.phase = "redo" /\ trip.n < trip.k /\ trip' = TripPress("redo", trip.n + 1)
       /\ ClickRedo /\ UNCHANGED <<events, before, dpr, exported>>
    \/ ~isDrawing /\ ClickReset /\ trip' = FreshTrip /\ UNCHANGED <<events, before, dpr, exported>>
    \/ Render /\ Uncounted

SpecRoundTrip == Init /\ [][NextRoundTrip]_vars

(***************************************************************************)
(* SpecExport: strokes that reach the edges of the canvas, undo, reset and *)
(* exports, to any depth, within MaxSnapshots.                             *)
(***************************************************************************)
UncountedExport == UNCHANGED <<events, trip, before, dpr>>

NextExport ==
    \/ \E p \in ExportPoints : StrokeInBounds /\ PointerDown(p) /\ Uncounted
    \/ \E p \in ExportPoints : PointerMove(p) /\ Uncounted
    \/ historyIndex < MaxSnapshots /\ PointerUp /\ Uncounted
    \/ ClickUndo /\ Uncounted
    \/ ClickReset /\ Uncounted
    \/ ClickSave /\ UncountedExport
    \/ GetImageData /\ UncountedExport
    \/ Render /\ Uncounted

SpecExport == Init /\ [][NextExport]_vars

(***************************************************************************)
(* The claims.                                                             *)
(***************************************************************************)
\* A pointer-up or pointer-leave handled by stopDrawing (draw mode).
StopEvent == (PointerUp \/ PointerLeave) /\ ~rendered.isPanMode

\* The first k snapshots of h (all of them when h is shorter).
Prefix(h, k) == SubSeq(h, 1, IF k < Len(h) THEN k ELSE Len(h))

\* C1: in every reachable state the history index lies within
\* [0, history.length - 1].
C1_IndexInRange == 0 <= historyIndex /\ historyIndex <= Len(history) - 1

\* C2: a stroke-ending event of a stroke in progress appends exactly one
\* snapshot of the buffer (after the snapshots up to the index) and advances
\* the index by one when the stroke painted anything, the dot of the
\* pointer-down included, and appends nothing when it painted nothing.
C2_StrokeEndSnapshots ==
    [][(StopEvent /\ isDrawing) =>
          IF strokeTouched
          THEN /\ history' = Append(Prefix(history, historyIndex + 1), canvas)
               /\ historyIndex' = historyIndex + 1
          ELSE UNCHANGED <<history, historyIndex>>]_vars

\* A stroke-ending event whose handler appends a snapshot.
AppendEvent == StopEvent /\ rendered.isDrawing /\ rendered.hasDrawn

\* C3: a snapshot appended while the index i is below the last index leaves
\* history.length = i + 2 and historyIndex = i + 1 with snapshots 0..i as they
\* were and the buffer as the last one; and a redo pressed while the index is
\* at the last index (no undo since the append) changes nothing.
C3_AppendDiscardsRedoTail ==
    [][/\ (AppendEvent /\ historyIndex < Len(history) - 1) =>
             /\ Len(history') = historyIndex + 2
             /\ historyIndex' = historyIndex + 1
             /\ Prefix(history', historyIndex + 1) = Prefix(history, historyIndex + 1)
             /\ history'[historyIndex' + 1] = canvas
       /\ (ClickRedo /\ historyIndex = Len(history) - 1) =>
             UNCHANGED <<canvas, history, historyIndex>>]_vars

\* C4: undo pressed (its button enabled) with historyIndex > 0 takes the index
\* down by one, redo pressed with historyIndex < history.length - 1 takes it
\* up by one; both leave the buffer equal to the snapshot at the new index and
\* the history as it was.
C4_UndoRedoStep ==
    [][/\ (ClickUndo /\ ~undoDisabled /\ historyIndex > 0) =>
             /\ historyIndex' = historyIndex - 1
             /\ historyIndex' < Len(history')
             /\ canvas' = history'[historyIndex' + 1]
             /\ history' = history
       /\ (ClickRedo /\ ~redoDisabled /\ historyIndex < Len(history) - 1) =>
             /\ historyIndex' = historyIndex + 1
             /\ historyIndex' < Len(history')
             /\ canvas' = history'[historyIndex' + 1]
             /\ history' = history]_vars

\* C5: undo at index 0 and redo at the last index change neither the buffer,
\* the history, the index, the stroke bounds nor the viewport transform.
C5_BoundaryNoOp ==
    [][((ClickUndo /\ historyIndex = 0) \/ (ClickRedo /\ historyIndex = Len(history) - 1)) =>
          UNCHANGED <<canvas, history, historyIndex, drawBounds, panOffset, scale>>]_vars

\* C6: after K completed strokes from a fresh or reset canvas, K presses of
\* undo and then K presses of redo leave the buffer as it was right after the
\* K-th stroke.
C6_RoundTripRestores ==
    (trip.phase = "redo" /\ trip.n = trip.k) => canvas = trip.target

\* C7: in every reachable state 0.1 <= scale <= 3.0.
C7_ScaleInRange == RLe(MinScale, scale) /\ RLe(scale, MaxScale)

\* A zoom has brought the scale down to its lower limit.
C7_ScaleAtLowerLimit == scale = MinScale /\ panOffset # CenteredOffset

\* C8 as stated: from every viewport state, the limits included, a press of
\* zoom-in and then a press of zoom-out bring the scale and the pan offset back
\* to what was on screen before.
C8_ZoomInOutRestores ==
    before.phase = "out" => (scale = before.scale /\ panOffset = before.panOffset)

\* C8 amended: the same, from every viewport state whose scale is at most 2.9,
\* so that the zoom-in step is not clamped.
C8_ZoomInOutRestoresBelowLimit ==
    (before.phase = "out" /\ RLe(RAdd(before.scale, ZoomUnit), MaxScale)) =>
        (scale = before.scale /\ panOffset = before.panOffset)

\* Zoom-in then zoom-out has brought back the lower limit 0.1 and a pan offset
\* other than the centred one.
C8_RestoredAtLowerLimit ==
    /\ before.phase = "out" /\ before.scale = MinScale
    /\ before.panOffset # CenteredOffset
    /\ scale = before.scale /\ panOffset = before.panOffset

\* The buffer point shown at viewport position c under the given transform.
BufferPointAt(c, offset, s) == <<RDiv(RSub(c[1], offset[1]), s), RDiv(RSub(c[2], offset[2]), s)>>

ZoomEvent == (\E d \in ButtonDeltas : ClickZoom(d)) \/ (\E sign \in WheelSigns : Wheel(sign))

\* C9: every zoom, by wheel or button, clamped or not, keeps the buffer point
\* shown at the viewport centre: (c - panOffset) / scale on screen before the
\* zoom equals (c - panOffset') / scale' after it, on both axes.
C9_ZoomKeepsCentre ==
    [][ZoomEvent => BufferPointAt(viewportCenter, panOffset', scale')
                      = BufferPointAt(viewportCenter, rendered.panOffset, rendered.scale)]_vars

\* A zoom-in at the upper limit has been clamped, away from the centred offset.
C9_ClampedOffCentre ==
    /\ scale = MaxScale /\ rendered.scale = MaxScale
    /\ before.phase = "in" /\ before.scale = MaxScale
    /\ panOffset # CenteredOffset

\* C10: in every reachable state the stroke bounds are the min/max fold over
\* the points at which drawing touched the buffer since the last reset, the
\* +infinity/-infinity sentinel when there are none.
C10_BoundsAreFoldOfDrawn == drawBounds = touched

\* An export through either entry point.
ExportEvent == ClickSave \/ GetImageData

\* C11: an export while the stroke bounds are at their empty sentinel reports
\* "nothing to export", returns no image, and leaves the buffer, the history,
\* the index, the bounds and the transform as they were.
C11_EmptyExportReportsNothing ==
    [][(ExportEvent /\ drawBounds = EmptyBounds) =>
          /\ exported'.result = "nothing"
          /\ UNCHANGED <<canvas, history, historyIndex, drawBounds, panOffset, scale>>]_vars

\* The accessor has reported "nothing to export" on a canvas reset after a
\* stroke.
C11_NothingAfterReset ==
    /\ exported.by = "accessor" /\ exported.result = "nothing"
    /\ drawBounds = EmptyBounds /\ isDrawing

\* The stroke bounds b expanded by BORDER_SIZE on every side and clamped to the
\* buffer extents [0, CANVAS_WIDTH] x [0, CANVAS_HEIGHT]: its width and height.
ClampedMargin(b) ==
    [width |-> RSub(RMin(R(CANVAS_WIDTH), RAdd(b.maxX, R(BORDER_SIZE))),
                    RMax(R(0), RSub(b.minX, R(BORDER_SIZE)))),
     height |-> RSub(RMin(R(CANVAS_HEIGHT), RAdd(b.maxY, R(BORDER_SIZE))),
                     RMax(R(0), RSub(b.minY, R(BORDER_SIZE))))]

\* C12: an export after drawing has touched the buffer since the last reset
\* yields an image, of the width and height of the stroke bounds expanded by
\* the margin and clamped to [0, 600] x [0, 600].
C12_ExportDimensions ==
    [][(ExportEvent /\ touched # EmptyBounds) =>
          /\ exported'.result = "image"
          /\ exported'.width = ClampedMargin(drawBounds).width
          /\ exported'.height = ClampedMargin(drawBounds).height]_vars

\* C13: a reset in any reachable state, a stroke in progress included, leaves
\* the buffer blank, the pan offset centred, the scale 1, the stroke bounds
\* at their empty sentinel and the history a single blank snapshot at index 0,
\* as after mount.
C13_ResetRestoresMount ==
    [][ClickReset =>
          /\ canvas' = Blank
          /\ panOffset' = CenteredOffset
          /\ scale' = R(1)
          /\ drawBounds' = EmptyBounds
          /\ history' = <<Blank>>
          /\ historyIndex' = 0]_vars

\* The canvas was reset while a stroke was in progress.
C13_ResetDuringStroke ==
    /\ isDrawing /\ drawBounds = EmptyBounds
    /\ canvas = Blank /\ history = <<Blank>> /\ historyIndex = 0
    /\ scale = R(1) /\ panOffset = CenteredOffset

\* C14: in no reachable state are a stroke and a pan both in progress.
C14_DrawPanExclusive == ~(isDrawing /\ isPanning)

\* C15: after a pointer-up or pointer-leave no stroke and no pan is in
\* progress, and a pointer-move while none is in progress (none was started by
\* a pointer-down since) changes neither the buffer nor the pan offset.
C15_StopEndsGesture ==
    [][/\ (PointerUp \/ PointerLeave) => (~isDrawing' /\ ~isPanning')
       /\ ((\E p \in Points : PointerMove(p)) /\ ~isDrawing /\ ~isPanning) =>
             UNCHANGED <<canvas, panOffset>>]_vars

\* C16: there is a fixed maximum that history.length never exceeds.  The
\* source names none; stated for every maximum n below the number of
\* snapshots the exploration allows.
C16_HistoryBounded == \E n \in 1..(MaxSnapshots - 1) : Len(history) <= n

PointerEvent ==
    \/ \E p \in Points : PointerDown(p) \/ PointerMove(p)
    \/ PointerUp \/ PointerLeave

\* C18: every pointer-move of a pan in progress adds to the pan offset its
\* delta from the previously recorded point, once, and leaves the scale (so
\* that a gesture from p0 to pn moves the offset by pn - p0); in draw mode no
\* pointer event changes the pan offset.
C18_PanAddsDelta ==
    [][/\ \A p \in Points :
             (PointerMove(p) /\ rendered.isPanMode /\ isPanning) =>
                /\ panOffset' = <<RAdd(panOffset[1], RSub(p[1], lastPointerPosition[1])),
                                  RAdd(panOffset[2], RSub(p[2], lastPointerPosition[2]))>>
                /\ scale' = scale
       /\ (PointerEvent /\ ~rendered.isPanMode) => panOffset' = panOffset]_vars

\* A pointer event of a pan gesture, a zoom, a mode toggle, a colour or
\* brush-size choice or an export.
ViewEvent ==
    \/ PointerEvent /\ rendered.isPanMode
    \/ ZoomEvent \/ ClickPanMode \/ SelectBrush \/ ExportEvent

\* An event that rasterises a stroke, restores a snapshot or resets.
BufferEvent ==
    \/ (\E p \in Points : PointerDown(p) \/ PointerMove(p)) /\ ~rendered.isPanMode
    \/ ClickUndo \/ ClickRedo \/ ClickReset

\* C19: pan gestures, zooms, mode toggles, colour and brush-size choices and
\* exports leave the buffer, the history, the index and the stroke bounds as
\* they were; the buffer changes only by rasterisation, undo, redo and reset.
C19_ViewEventsKeepDrawing ==
    [][/\ ViewEvent => UNCHANGED <<canvas, history, historyIndex, drawBounds>>
       /\ canvas' # canvas => BufferEvent]_vars

\* A zoom and an export have followed a completed stroke.
C19_ZoomedAndExported ==
    /\ Len(history) = 2 /\ historyIndex = 1 /\ canvas = history[2]
    /\ scale # R(1) /\ exported.result = "image"

\* C20: whenever no stroke is in progress, the buffer is the snapshot
\* history[historyIndex].
C20_BufferIsCurrentSnapshot ==
    ~isDrawing => (historyIndex < Len(history) /\ canvas = history[historyIndex + 1])

\* The extent b of the strokes meets the buffer [0, CANVAS_WIDTH] x
\* [0, CANVAS_HEIGHT]: some point of its rectangle is a pixel.
MeetsBuffer(b) ==
    /\ RLe(R(0), b.maxX) /\ RLe(b.minX, R(CANVAS_WIDTH))
    /\ RLe(R(0), b.maxY) /\ RLe(b.minY, R(CANVAS_HEIGHT))

=============================================================================
